---- MODULE Spec2Model ----
(***************************************************************************)
(* Model of the two MIMO crawlers of scripts/:                             *)
(*   hornbostelSachs_data.py  (classification crawl, script = "hs")        *)
(*   translation_data.py      (translation crawl,    script = "tr")        *)
(* The remote vocabulary is a forest over Nodes; a node is identified by   *)
(* its page number.  Every HTTP request draws its outcome from a small     *)
(* set.  An uncaught Python exception ends the run in pc = "crashed".      *)
(***************************************************************************)
EXTENDS Integers, Sequences, FiniteSets, TLC

MaxNodes == 3
MaxCap == 2
RecursionLimit == MaxNodes + 1
MaxDigit == 3
MaxNotationLen == 2
MaxDictLen == 2
MaxLabel == 1
MaxPage == 1
MaxListLen == 3
MaxFragLen == 2
MaxChar == 2
MaxFrags == 3

Nodes == 1..MaxNodes
initial_page == 1

VARIABLES script, MAX_COUNT, parent, hasChildren,
          pc, exc, mi, stack,
          counter, failed_urls, results, main_results,
          output, reported,
          body, nonOk, hierReq, visits, net,
          li_texts, description

vars == <<script, MAX_COUNT, parent, hasChildren, pc, exc, mi, stack,
          counter, failed_urls, results, main_results, output, reported,
          body, nonOk, hierReq, visits, net, li_texts, description>>

\* the fragments scraped from one details page and the description chosen
scraped == <<li_texts, description>>

remote == <<script, MAX_COUNT, parent, hasChildren>>

(***************************************************************************)
(* The remote vocabulary                                                   *)
(***************************************************************************)
RECURSIVE ChildrenFrom(_, _)
ChildrenFrom(n, m) ==
  IF m > MaxNodes THEN <<>>
  ELSE IF parent[m] = n THEN <<m>> \o ChildrenFrom(n, m + 1)
       ELSE ChildrenFrom(n, m + 1)

\* the 'narrower' list of node n's entry, in the order the source lists it
Children(n) == ChildrenFrom(n, 1)

\* the top-level concepts / the keys of the initial hierarchy response
Roots == Children(0)

\* whether the top-level entry of node n carries a 'narrower' key
HasNarrower(n) == Children(n) # <<>>

\* keys of 'broaderTransitive' in the hierarchy response for page p
RespKeys(p) == IF p = initial_page THEN Roots ELSE <<p>>

\* label of a node (strings are modelled by their rank in string order)
LabelOf(n) == (n * 2) % 3

\* notation code of a node: a string of digits
NotationOf(n) == IF n % 2 = 1 THEN <<2, n>> ELSE <<1, n>>

get_page_number_from_uri(uri) == uri

Url(kind, page) == <<kind, page>>

(***************************************************************************)
(* Rate limiter bookkeeping: the network events of one step, in order      *)
(***************************************************************************)
RECURSIVE After(_, _)
After(n, evs) ==
  IF evs = <<>> THEN n
  ELSE LET e == Head(evs) IN
       After([last |-> e,
              b2b  |-> n.b2b \/ (e = "req" /\ n.last = "req")], Tail(evs))

(***************************************************************************)
(* Result assembly                                                         *)
(***************************************************************************)
\* Python's str < str on notation codes
StrLess(a, b) ==
  \E i \in 1..(Len(a) + 1) :
     /\ \A j \in 1..(i - 1) : j <= Len(b) /\ a[j] = b[j]
     /\ i <= Len(b)
     /\ (i > Len(a) \/ a[i] < b[i])

RECURSIVE InsertStr(_, _)
InsertStr(x, s) ==
  IF s = <<>> THEN <<x>>
  ELSE IF StrLess(x, Head(s)) THEN <<x>> \o s
       ELSE <<Head(s)>> \o InsertStr(x, Tail(s))

\* sorted(list_of_strings)
RECURSIVE SortedStrs(_)
SortedStrs(s) ==
  IF s = <<>> THEN <<>>
  ELSE InsertStr(s[Len(s)], SortedStrs(SubSeq(s, 1, Len(s) - 1)))

\* list.index(x): position of the first occurrence
IndexOf(s, x) == CHOOSE i \in 1..Len(s) : s[i] = x /\ \A j \in 1..(i - 1) : s[j] # x

\* stable insertion of the pair <<k, v>> by its integer key k
RECURSIVE InsertKeyed(_, _)
InsertKeyed(x, s) ==
  IF s = <<>> THEN <<x>>
  ELSE IF x[1] < Head(s)[1] THEN <<x>> \o s
       ELSE <<Head(s)>> \o InsertKeyed(x, Tail(s))

\* sorted(pairs, key = first component), stable
RECURSIVE SortedKeyed(_)
SortedKeyed(s) ==
  IF s = <<>> THEN <<>>
  ELSE InsertKeyed(s[Len(s)], SortedKeyed(SubSeq(s, 1, Len(s) - 1)))

Range(f) == {f[i] : i \in DOMAIN f}

DictKeys(d) == [i \in 1..Len(d) |-> d[i][1]]

\* d[k] = v on an insertion-ordered dict
DictSet(d, k, v) ==
  IF \E i \in 1..Len(d) : d[i][1] = k
  THEN [i \in 1..Len(d) |-> IF d[i][1] = k THEN <<k, v>> ELSE d[i]]
  ELSE Append(d, <<k, v>>)

\* sort_results with the rank taken from the unsorted key list
sort_results_UnsortedRank(d) ==
  LET skeys == DictKeys(d)
      keyed == [i \in 1..Len(d) |-> <<IndexOf(skeys, d[i][1]), d[i]>>]
      srt   == SortedKeyed(keyed)
  IN  [i \in 1..Len(srt) |-> srt[i][2]]

sort_results(d) ==
  LET skeys == SortedStrs(DictKeys(d))
      keyed == [i \in 1..Len(d) |-> <<IndexOf(skeys, d[i][1]), d[i]>>]
      srt   == SortedKeyed(keyed)
  IN  [i \in 1..Len(srt) |-> srt[i][2]]

\* a sort by Label that is not stable: entries with equal Labels come out in
\* reverse input order
SortedByLabel_ReversedTies(rs) ==
  LET keyed == [i \in 1..Len(rs) |->
                  <<rs[Len(rs) + 1 - i].Label, rs[Len(rs) + 1 - i]>>]
      srt   == SortedKeyed(keyed)
  IN  [i \in 1..Len(srt) |-> srt[i][2]]

\* a sort on the wrong key, MIMOPage
SortedByLabel_ByPage(rs) ==
  LET keyed == [i \in 1..Len(rs) |-> <<rs[i].MIMOPage, rs[i]>>]
      srt   == SortedKeyed(keyed)
  IN  [i \in 1..Len(srt) |-> srt[i][2]]

\* sorted(results, key=lambda x: x['Label'])
SortedByLabel(rs) ==
  LET keyed == [i \in 1..Len(rs) |-> <<rs[i].Label, rs[i]>>]
      srt   == SortedKeyed(keyed)
  IN  [i \in 1..Len(srt) |-> srt[i][2]]

\* A Translations value is None or a dict; a dict is the sequence of its
\* <<language, text>> items in insertion order (languages are modelled by
\* their rank in string order)
NoneValue == [kind |-> "None", items |-> <<>>]
DictValue(items) == [kind |-> "dict", items |-> items]

\* Python's == on two entries: dicts are equal when they hold the same items
EntryEq(a, b) ==
  /\ a.Label = b.Label /\ a.MIMOPage = b.MIMOPage
  /\ a.Translations.kind = b.Translations.kind
  /\ Range(a.Translations.items) = Range(b.Translations.items)

\* json.dumps without sort_keys: nested items in insertion order
Serialize_InsertionOrder(e) == <<e.Label, e.MIMOPage, e.Translations>>

\* json.dumps(entry, sort_keys=True): the fields in key order ("Label",
\* "MIMOPage", "Translations"), the items of a nested dict sorted by key
Serialize(e) ==
  <<e.Label, e.MIMOPage,
    [kind |-> e.Translations.kind, items |-> SortedKeyed(e.Translations.items)]>>

RECURSIVE RemoveDupFrom(_, _, _)
RemoveDupFrom(s, seen, unique_data) ==
  IF s = <<>> THEN unique_data
  ELSE LET serialized == Serialize(Head(s)) IN
       IF serialized \notin seen
       THEN RemoveDupFrom(Tail(s), seen \cup {serialized}, Append(unique_data, Head(s)))
       ELSE RemoveDupFrom(Tail(s), seen, unique_data)

\* remove_duplicates that never adds to seen
remove_duplicates_SeenNeverFilled(sorted_results) == sorted_results

remove_duplicates(sorted_results) == RemoveDupFrom(sorted_results, {}, <<>>)

(***************************************************************************)
(* Request outcomes                                                        *)
(***************************************************************************)
\* whether the document of page p holds the concept of page p
ConceptIn(p) == p % 3 # 0
\* whether the mappings of page p are null
MappingsNull(p) == p % 2 = 0

\* hierarchy request: non-200, or 200 with a body that has 'broaderTransitive'
\* or lacks it; a page answers with the same body every time it answers
HierOutcome(p) ==
  {"fail"} \cup (IF body[p] = "unknown" THEN {"ok", "nokey"} ELSE {body[p]})
Learn(p, h) == IF h = "fail" THEN body ELSE [body EXCEPT ![p] = h]
\* translation-data request: non-200, or 200 with or without the concept
TransOutcome(p) == {"fail", IF ConceptIn(p) THEN "ok" ELSE "noconcept"}
\* mappings request: non-200, or 200 with a list or with null
MapOutcome(p) == {"fail", IF MappingsNull(p) THEN "null" ELSE "ok"}
\* details page: 200 with fragments, 200 without any fragment, non-200
DescOutcome == {"ok", "empty", "fail"}
\* top-concepts request: 200, or non-200 with a body that is not JSON, that
\* is JSON without 'topconcepts', or that is JSON with 'topconcepts'
TopOutcome == {"ok", "fail_notjson", "fail_nokey", "fail_ok"}

\* value returned by get_translations
get_translations(t) ==
  CASE t = "fail"      -> NoneValue
    [] t = "noconcept" -> DictValue(<<>>)
    [] OTHER           -> DictValue(<<<<2, 0>>, <<1, 0>>>>)

\* value returned by get_instrument_names_for_page
get_instrument_names_for_page(m) == IF m = "ok" THEN "names" ELSE "empty"

\* value returned by fetch_hierarchy
fetch_hierarchy(h) == IF h = "fail" THEN "None" ELSE h

\* failed_urls after a request to url with the given success
Record(fl, url, success) == IF success THEN fl ELSE Append(fl, url)

\* the URLs that did return a non-success status
Note(st, url, success) == IF success THEN st ELSE st \cup {url}

TrEntry(n, t) ==
  [Label |-> LabelOf(n), Translations |-> get_translations(t),
   MIMOPage |-> get_page_number_from_uri(n)]

HsEntry(n, m) ==
  [Label |-> LabelOf(n), Instruments |-> get_instrument_names_for_page(m),
   Description |-> "text", MIMOPage |-> get_page_number_from_uri(n)]

Frame(hd, page, uri) == [hd |-> hd, page |-> page, uri |-> uri, ki |-> 0, ci |-> 1]

\* uris = hierarchy_data['broaderTransitive'].keys() if uri is None else [uri]
Uris(f) == IF f.uri = 0 THEN RespKeys(f.page) ELSE <<f.uri>>

CapOn == MAX_COUNT # -1

\* MAX_COUNT != -1 and counter['count'] >= MAX_COUNT
CapReached(cnt) == MAX_COUNT # -1 /\ cnt >= MAX_COUNT

\* the entry checks without the test for the missing key
EntryCheck_NoKeyTest(hierarchy_data, cnt) ==
  IF CapReached(cnt) THEN "return"
  ELSE IF hierarchy_data \in {"None", "nokey"} THEN "raise"
  ELSE "loop"

\* the checks at the head of process_hierarchy, in the order of the code
EntryCheck(hierarchy_data, cnt) ==
  IF CapReached(cnt) THEN "return"
  ELSE IF hierarchy_data = "None" THEN "raise"
  ELSE IF hierarchy_data = "nokey" THEN "return"
  ELSE "loop"

(***************************************************************************)
(* Initial state: a remote forest, a script and a cap                      *)
(***************************************************************************)
Init ==
  /\ script \in {"hs", "tr"}
  /\ MAX_COUNT \in {-1} \cup (0..MaxCap)
  /\ parent \in {p \in [Nodes -> 0..MaxNodes] : \A n \in Nodes : p[n] < n}
  /\ hasChildren \in [Nodes -> BOOLEAN]
  /\ pc = "start" /\ exc = "none" /\ mi = 1 /\ stack = <<>>
  /\ counter = 0 /\ failed_urls = <<>> /\ results = <<>> /\ main_results = <<>>
  /\ output = <<>> /\ reported = FALSE
  /\ body = [n \in Nodes |-> "unknown"]
  /\ nonOk = {} /\ hierReq = {} /\ visits = 0
  /\ net = [last |-> "none", b2b |-> FALSE]
  /\ li_texts = <<>> /\ description = <<>>

(***************************************************************************)
(* translation_data.py: main                                               *)
(***************************************************************************)
TrMain_Fetch ==
  /\ script = "tr" /\ pc = "start"
  /\ \E h \in HierOutcome(initial_page) :
       /\ body' = Learn(initial_page, h)
       /\ hierReq' = hierReq \cup {initial_page}
       /\ net' = After(net, <<"req">>)
       /\ failed_urls' = Record(failed_urls, Url("hierarchy", initial_page), h # "fail")
       /\ nonOk' = Note(nonOk, Url("hierarchy", initial_page), h # "fail")
       /\ pc' = IF h = "ok" THEN "main_loop" ELSE "crashed"
       /\ exc' = CASE h = "fail"  -> "TypeError_NoneType_not_subscriptable"
                   [] h = "nokey" -> "KeyError_broaderTransitive"
                   [] OTHER       -> exc
  /\ UNCHANGED <<scraped, remote, mi, stack, counter, results, main_results, output,
                 reported, visits>>

TrMain_Item ==
  /\ script = "tr" /\ pc = "main_loop" /\ stack = <<>> /\ mi <= Len(Roots)
  /\ LET uri  == Roots[mi]
         page == get_page_number_from_uri(uri)
     IN \E t \in TransOutcome(page) :
          /\ results' = Append(results, TrEntry(uri, t))
          /\ failed_urls' = Record(failed_urls, Url("data", page), t # "fail")
          /\ nonOk' = Note(nonOk, Url("data", page), t # "fail")
          /\ net' = After(net, <<"req">>)
          /\ visits' = visits + 1
          /\ stack' = <<Frame("ok", initial_page, uri)>>
          /\ mi' = mi + 1
  /\ UNCHANGED <<scraped, remote, pc, exc, counter, main_results, output, reported,
                 body, hierReq>>

TrMain_Finish ==
  /\ script = "tr" /\ pc = "main_loop" /\ stack = <<>> /\ mi > Len(Roots)
  /\ output' = remove_duplicates(SortedByLabel(results))
  /\ reported' = TRUE
  /\ pc' = "done"
  /\ UNCHANGED <<scraped, remote, exc, mi, stack, counter, failed_urls, results,
                 main_results, body, nonOk, hierReq, visits, net>>

(***************************************************************************)
(* process_hierarchy (both scripts): entry checks, key loop, return        *)
(***************************************************************************)
PH_Enter ==
  /\ pc = "main_loop" /\ stack # <<>> /\ Head(stack).ki = 0
  /\ LET f == Head(stack)
         r == EntryCheck(f.hd, counter)
     IN  IF r = "raise"
         THEN /\ pc' = "crashed" /\ exc' = "TypeError_NoneType_not_iterable"
              /\ stack' = <<>>
         ELSE /\ stack' = IF r = "return" THEN Tail(stack)
                                          ELSE <<[f EXCEPT !.ki = 1]>> \o Tail(stack)
              /\ UNCHANGED <<scraped, pc, exc>>
  /\ UNCHANGED <<scraped, remote, mi, counter, failed_urls, results, main_results,
                 output, reported, body, nonOk, hierReq, visits, net>>

InLoop == pc = "main_loop" /\ stack # <<>> /\ Head(stack).ki >= 1

PH_NextKey ==
  /\ InLoop
  /\ LET f == Head(stack) IN
       /\ f.ki <= Len(Uris(f))
       /\ LET current_uri == Uris(f)[f.ki] IN
            \/ HasNarrower(current_uri) /\ f.ci > Len(Children(current_uri))
            \/ script = "hs" /\ ~HasNarrower(current_uri)
       /\ stack' = <<[f EXCEPT !.ki = f.ki + 1, !.ci = 1]>> \o Tail(stack)
  /\ UNCHANGED <<scraped, remote, pc, exc, mi, counter, failed_urls, results,
                 main_results, output, reported, body, nonOk, hierReq, visits, net>>

PH_Return ==
  /\ InLoop
  /\ Head(stack).ki > Len(Uris(Head(stack)))
  /\ stack' = Tail(stack)
  /\ UNCHANGED <<scraped, remote, pc, exc, mi, counter, failed_urls, results,
                 main_results, output, reported, body, nonOk, hierReq, visits, net>>

(***************************************************************************)
(* translation_data.py: the two branches of the loop body                  *)
(***************************************************************************)
\* lines 89-115: one iteration over a child descriptor of 'narrower'
Tr_VisitChild ==
  /\ script = "tr" /\ InLoop
  /\ LET f == Head(stack) IN
       /\ f.ki <= Len(Uris(f))
       /\ LET current_uri == Uris(f)[f.ki] IN
            /\ HasNarrower(current_uri)
            /\ f.ci <= Len(Children(current_uri))
            /\ LET child_uri  == Children(current_uri)[f.ci]
                   child_page == get_page_number_from_uri(child_uri)
               IN \E t \in TransOutcome(child_page), h \in HierOutcome(child_page) :
                    LET cnt == IF CapOn THEN counter + 1 ELSE counter
                        brk == CapReached(cnt)
                        rec == ~brk /\ hasChildren[child_uri]
                        f2  == IF brk THEN [f EXCEPT !.ki = f.ki + 1, !.ci = 1]
                                      ELSE [f EXCEPT !.ci = f.ci + 1]
                    IN /\ results' = Append(results, TrEntry(child_uri, t))
                       /\ visits' = visits + 1
                       /\ counter' = cnt
                       /\ failed_urls' =
                            Record(Record(failed_urls, Url("data", child_page), t # "fail"),
                                   Url("hierarchy", child_page), ~rec \/ h # "fail")
                       /\ nonOk' =
                            Note(Note(nonOk, Url("data", child_page), t # "fail"),
                                 Url("hierarchy", child_page), ~rec \/ h # "fail")
                       /\ hierReq' = IF rec THEN hierReq \cup {child_page} ELSE hierReq
                       /\ body' = IF rec THEN Learn(child_page, h) ELSE body
                       /\ net' = After(net, IF rec THEN <<"sleep", "req", "req">>
                                                   ELSE <<"sleep", "req">>)
                       /\ IF rec /\ Len(stack) >= RecursionLimit
                          THEN pc' = "crashed" /\ exc' = "RecursionError" /\ stack' = <<>>
                          ELSE /\ stack' = (IF rec
                                            THEN <<Frame(fetch_hierarchy(h), child_page, child_uri)>>
                                            ELSE <<>>) \o <<f2>> \o Tail(stack)
                               /\ UNCHANGED <<scraped, pc, exc>>
  /\ UNCHANGED <<scraped, remote, mi, main_results, output, reported>>

\* lines 116-133: the entry of current_uri has no 'narrower' key
Tr_VisitSelf ==
  /\ script = "tr" /\ InLoop
  /\ LET f == Head(stack) IN
       /\ f.ki <= Len(Uris(f))
       /\ LET child_uri  == Uris(f)[f.ki]
              child_page == get_page_number_from_uri(child_uri)
          IN /\ ~HasNarrower(child_uri)
             /\ \E t \in TransOutcome(child_page), h \in HierOutcome(child_page) :
                  LET rec == hasChildren[child_uri]
                      f2  == [f EXCEPT !.ki = f.ki + 1, !.ci = 1]
                  IN /\ results' = Append(results, TrEntry(child_uri, t))
                     /\ visits' = visits + 1
                     /\ failed_urls' =
                          Record(Record(failed_urls, Url("data", child_page), t # "fail"),
                                 Url("hierarchy", child_page), ~rec \/ h # "fail")
                     /\ nonOk' =
                          Note(Note(nonOk, Url("data", child_page), t # "fail"),
                               Url("hierarchy", child_page), ~rec \/ h # "fail")
                     /\ hierReq' = IF rec THEN hierReq \cup {child_page} ELSE hierReq
                     /\ body' = IF rec THEN Learn(child_page, h) ELSE body
                     /\ net' = After(net, IF rec THEN <<"req", "req">> ELSE <<"req">>)
                     /\ IF rec /\ Len(stack) >= RecursionLimit
                        THEN pc' = "crashed" /\ exc' = "RecursionError" /\ stack' = <<>>
                        ELSE /\ stack' = (IF rec
                                          THEN <<Frame(fetch_hierarchy(h), child_page, child_uri)>>
                                          ELSE <<>>) \o <<f2>> \o Tail(stack)
                             /\ UNCHANGED <<scraped, pc, exc>>
  /\ UNCHANGED <<scraped, remote, mi, counter, main_results, output, reported>>

(***************************************************************************)
(* hornbostelSachs_data.py                                                 *)
(***************************************************************************)
\* lines 122-129: the top-concepts request; only a message is printed on failure
HsMain_Fetch ==
  /\ script = "hs" /\ pc = "start"
  /\ \E r \in TopOutcome :
       /\ net' = After(net, <<"req">>)
       /\ nonOk' = Note(nonOk, Url("topConcepts", 0), r = "ok")
       /\ pc' = IF r \in {"ok", "fail_ok"} THEN "main_loop" ELSE "crashed"
       /\ exc' = CASE r = "fail_notjson" -> "JSONDecodeError"
                   [] r = "fail_nokey"   -> "KeyError_topconcepts"
                   [] OTHER              -> exc
  /\ UNCHANGED <<scraped, remote, mi, stack, counter, failed_urls, results, main_results,
                 output, reported, body, hierReq, visits>>

\* lines 131-151: one iteration over data['topconcepts']
HsMain_Item ==
  /\ script = "hs" /\ pc = "main_loop" /\ stack = <<>> /\ mi <= Len(Roots)
  /\ LET item == Roots[mi]
         page == get_page_number_from_uri(item)
     IN IF ~hasChildren[item]
        THEN /\ mi' = mi + 1
             /\ UNCHANGED <<scraped, pc, exc, stack, counter, failed_urls, main_results,
                            body, nonOk, hierReq, visits, net>>
        ELSE \E m \in MapOutcome(page), d \in DescOutcome, h \in HierOutcome(page) :
               LET fl1 == Record(failed_urls, Url("mappings", page), m # "fail")
                   no1 == Note(Note(nonOk, Url("mappings", page), m # "fail"),
                               Url("details", page), d # "fail")
                   cnt == IF CapOn THEN counter + 1 ELSE counter
                   brk == CapReached(cnt)
               IN IF d # "ok"
                  THEN \* get_description_from_uri raises
                       /\ pc' = "crashed"
                       /\ exc' = IF d = "fail" THEN "UnboundLocalError_li_texts"
                                               ELSE "IndexError_list_index"
                       /\ failed_urls' = fl1 /\ nonOk' = no1
                       /\ net' = After(net, <<"req", "req">>)
                       /\ UNCHANGED <<scraped, mi, stack, counter, main_results, body, hierReq, visits>>
                  ELSE /\ main_results' = DictSet(main_results, NotationOf(item), HsEntry(item, m))
                       /\ visits' = visits + 1
                       /\ counter' = cnt
                       /\ UNCHANGED <<scraped, pc, exc>>
                       /\ IF brk
                          THEN /\ mi' = Len(Roots) + 1
                               /\ failed_urls' = fl1 /\ nonOk' = no1
                               /\ net' = After(net, <<"req", "req">>)
                               /\ UNCHANGED <<scraped, stack, body, hierReq>>
                          ELSE /\ mi' = mi + 1
                               /\ failed_urls' = Record(fl1, Url("hierarchy", page), h # "fail")
                               /\ nonOk' = Note(no1, Url("hierarchy", page), h # "fail")
                               /\ hierReq' = hierReq \cup {page}
                               /\ body' = Learn(page, h)
                               /\ net' = After(net, <<"req", "req", "req">>)
                               /\ stack' = <<Frame(fetch_hierarchy(h), page, 0)>>
  /\ UNCHANGED <<scraped, remote, results, output, reported>>

\* lines 83-99: one iteration over a child descriptor; the module-level
\* results is a list, so the assignment results[child_notation] = ... raises
Hs_VisitChild ==
  /\ script = "hs" /\ InLoop
  /\ LET f == Head(stack) IN
       /\ f.ki <= Len(Uris(f))
       /\ LET current_uri == Uris(f)[f.ki] IN
            /\ HasNarrower(current_uri)
            /\ f.ci <= Len(Children(current_uri))
            /\ LET child_uri  == Children(current_uri)[f.ci]
                   child_page == get_page_number_from_uri(child_uri)
               IN \E d \in DescOutcome, m \in MapOutcome(child_page) :
                    /\ nonOk' = Note(Note(nonOk, Url("details", child_page), d # "fail"),
                                     Url("mappings", child_page), d # "ok" \/ m # "fail")
                    /\ failed_urls' = Record(failed_urls, Url("mappings", child_page),
                                             d # "ok" \/ m # "fail")
                    /\ net' = After(net, IF d = "ok" THEN <<"req", "req", "sleep">>
                                                     ELSE <<"req">>)
                    /\ pc' = "crashed"
                    /\ exc' = CASE d = "fail"  -> "UnboundLocalError_li_texts"
                                [] d = "empty" -> "IndexError_list_index"
                                [] OTHER       -> "TypeError_list_indices"
                    /\ stack' = <<>>
  /\ UNCHANGED <<scraped, remote, mi, counter, results, main_results, output, reported,
                 body, hierReq, visits>>

\* lines 153-155: sort, save, report
HsMain_Finish ==
  /\ script = "hs" /\ pc = "main_loop" /\ stack = <<>> /\ mi > Len(Roots)
  /\ output' = sort_results(main_results)
  /\ reported' = TRUE
  /\ pc' = "done"
  /\ UNCHANGED <<scraped, remote, exc, mi, stack, counter, failed_urls, results,
                 main_results, body, nonOk, hierReq, visits, net>>

Next ==
  \/ TrMain_Fetch \/ TrMain_Item \/ TrMain_Finish
  \/ PH_Enter \/ PH_NextKey \/ PH_Return
  \/ Tr_VisitChild \/ Tr_VisitSelf
  \/ HsMain_Fetch \/ HsMain_Item \/ Hs_VisitChild \/ HsMain_Finish

Spec == Init /\ [][Next]_vars

TypeOK ==
  /\ pc \in {"start", "main_loop", "done", "crashed"}
  /\ counter \in 0..(MaxCap + 1)
  /\ Len(stack) <= RecursionLimit

(***************************************************************************)
(* Properties                                                              *)
(***************************************************************************)
\* node n has an entry in the accumulator the script hands to its sink
HasEntry(n) ==
  IF script = "hs"
  THEN \E i \in 1..Len(main_results) : main_results[i][1] = NotationOf(n)
  ELSE \E i \in 1..Len(results) : results[i].MIMOPage = n

\* C1: with the cap enabled (MAX_COUNT = C >= 0) the number of nodes visited
\* over the whole run, root entries included, never exceeds C.
C1_VisitsWithinCap == CapOn => visits <= MAX_COUNT

\* C2: a failed hierarchy request makes fetch_hierarchy return None and the
\* caller only abandons that subtree: process_hierarchy called with None
\* returns to its caller and the run goes on.
C2_NoneAbandonsSubtree ==
  [][(pc = "main_loop" /\ stack # <<>> /\ Head(stack).ki = 0
        /\ Head(stack).hd = "None")
       => (pc' = "main_loop" /\ stack' = Tail(stack))]_vars

\* C3: a run never ends without its report, and at the report the failed-URL
\* list holds the URL of every request that returned a non-success status.
C3_AllFailuresReported ==
  /\ (pc = "crashed" => nonOk = {})
  /\ (pc = "done" => reported /\ nonOk \subseteq Range(failed_urls))

\* a child descriptor of the classification crawl is about to be visited
HsChildDue(c) ==
  /\ script = "hs" /\ InLoop
  /\ Head(stack).ki <= Len(Uris(Head(stack)))
  /\ LET current_uri == Uris(Head(stack))[Head(stack).ki] IN
       /\ Head(stack).ci <= Len(Children(current_uri))
       /\ Children(current_uri)[Head(stack).ci] = c

\* C4: in the classification crawl every child node visited during the
\* traversal gets an entry under its notation in the mapping handed to the
\* output sink (with an empty Instruments list when its mappings request
\* failed, the mappings URL then being in the failed-URL list).
C4_ChildInOutput ==
  [][\A c \in Nodes :
       (HsChildDue(c) /\ vars' # vars)
         => /\ pc' = "main_loop"
            /\ \E i \in 1..Len(main_results') :
                 main_results'[i][1] = NotationOf(c)]_vars

\* C5: every descriptor with hasChildren == false the walker encounters, top
\* level concepts included, is visited and enriched, and no hierarchy request
\* is issued for it (the translation crawl's initial request is its input).
C5_LeavesVisitedNotExpanded ==
  (pc = "done" /\ ~CapOn)
    => \A n \in Range(Roots) :
         ~hasChildren[n]
           => /\ HasEntry(n)
              /\ (n \in hierReq => (script = "tr" /\ n = initial_page))

\* C6: a failed root request (top concepts, initial hierarchy) does not abort
\* the run.
C6_RootFailureNotFatal ==
  [][(pc = "start" /\ nonOk' # {}) => pc' # "crashed"]_vars

\* C7: in the final output of the translation crawl no two entries are equal
\* in all of Label, Translations and MIMOPage, and every entry the traversal
\* accumulated is still represented (nothing but exact duplicates is dropped).
C7_NoExactDuplicates ==
  (script = "tr" /\ pc = "done")
    => /\ \A i, j \in 1..Len(output) : i # j => output[i] # output[j]
       /\ Range(output) = Range(results)

\* C7 as stated: no two entries of the final output carry the same MIMOPage.
C7_OneEntryPerPage ==
  (script = "tr" /\ pc = "done")
    => \A i, j \in 1..Len(output) :
         i # j => output[i].MIMOPage # output[j].MIMOPage

\* a finished translation crawl that visited a node twice with the same result
C7_Witness ==
  /\ script = "tr" /\ pc = "done"
  /\ \E i, j \in 1..Len(results) : i < j /\ results[i] = results[j]
  /\ Len(output) < Len(results)

\* C8: process_hierarchy on a response without 'broaderTransitive' visits
\* nothing, issues no request, leaves results, failed_urls and the counter
\* unchanged and returns, so that the caller goes on with its next sibling.
C8_MissingKeyIsNoop ==
  [][(pc = "main_loop" /\ stack # <<>> /\ Head(stack).ki = 0
        /\ Head(stack).hd = "nokey")
       => /\ results' = results /\ main_results' = main_results
          /\ failed_urls' = failed_urls /\ counter' = counter
          /\ visits' = visits /\ hierReq' = hierReq /\ net' = net
          /\ pc' = "main_loop" /\ stack' = Tail(stack)]_vars

\* a child answered without the key and a later sibling of it was visited
C8_Witness ==
  /\ script = "tr"
  /\ \E p, q \in Nodes :
       /\ body[p] = "nokey" /\ parent[p] # 0 /\ parent[q] = parent[p] /\ p < q
       /\ \E i \in 1..Len(results) : results[i].MIMOPage = q

\* n is reachable from a root through nodes flagged hasChildren == true
RECURSIVE Reach(_)
Reach(n) ==
  \/ parent[n] = 0
  \/ /\ Reach(parent[n])
     /\ (parent[parent[n]] = 0 \/ hasChildren[parent[n]])

FirstIdx(n) ==
  CHOOSE i \in 1..Len(results) :
    results[i].MIMOPage = n /\ \A j \in 1..(i - 1) : results[j].MIMOPage # n

AllSucceeded == nonOk = {} /\ \A n \in Nodes : body[n] # "nokey"

\* C9: an uncapped translation crawl in which every request succeeds ends
\* with an entry in the final output for every reachable node, and siblings
\* were visited in the order their parent's response lists them.
C9_WholeTreeInOrder ==
  (script = "tr" /\ pc \in {"done", "crashed"} /\ ~CapOn /\ AllSucceeded)
    => /\ pc = "done"
       /\ \A n \in Nodes :
            Reach(n) => \E i \in 1..Len(output) : output[i].MIMOPage = n
       /\ \A a, b \in Nodes :
            (Reach(a) /\ Reach(b) /\ parent[a] = parent[b] /\ a < b)
              => FirstIdx(a) < FirstIdx(b)

(***************************************************************************)
(* sort_results on arbitrary mappings                                      *)
(***************************************************************************)
NotationPool == UNION {[1..l -> 1..MaxDigit] : l \in 1..MaxNotationLen}

\* the empty mapping
SortInit ==
  /\ script = "hs" /\ MAX_COUNT = -1
  /\ parent = [n \in Nodes |-> 0] /\ hasChildren = [n \in Nodes |-> FALSE]
  /\ pc = "sort_input" /\ exc = "none" /\ mi = 1 /\ stack = <<>>
  /\ counter = 0 /\ failed_urls = <<>> /\ results = <<>>
  /\ main_results = <<>>
  /\ output = <<>> /\ reported = FALSE
  /\ body = [n \in Nodes |-> "unknown"]
  /\ nonOk = {} /\ hierReq = {} /\ visits = 0
  /\ net = [last |-> "none", b2b |-> FALSE]
  /\ li_texts = <<>> /\ description = <<>>

\* results[notation] = value for a new notation; the value of a key is the
\* position at which it was inserted
SortInsert ==
  /\ pc = "sort_input" /\ Len(main_results) < MaxDictLen
  /\ \E k \in NotationPool \ Range(DictKeys(main_results)) :
       main_results' = DictSet(main_results, k, Len(main_results) + 1)
  /\ UNCHANGED <<scraped, remote, pc, exc, mi, stack, counter, failed_urls, results,
                 output, reported, body, nonOk, hierReq, visits, net>>

SortApply ==
  /\ pc = "sort_input"
  /\ output' = sort_results(main_results)
  /\ pc' = "sort_done"
  /\ UNCHANGED <<scraped, remote, exc, mi, stack, counter, failed_urls, results,
                 main_results, reported, body, nonOk, hierReq, visits, net>>

SortNext == SortInsert \/ SortApply

SpecSort == SortInit /\ [][SortNext]_vars

\* a comes before b in lexicographic order (a proper prefix comes first)
RECURSIVE LexBefore(_, _)
LexBefore(a, b) ==
  IF b = <<>> THEN FALSE
  ELSE IF a = <<>> THEN TRUE
  ELSE IF Head(a) # Head(b) THEN Head(a) < Head(b)
  ELSE LexBefore(Tail(a), Tail(b))

\* C10: sort_results returns the same key/value pairs, the keys iterating in
\* ascending lexicographic order, whatever the insertion order was.
C10_SortedByNotation ==
  pc = "sort_done"
    => /\ Len(output) = Len(main_results)
       /\ Range(output) = Range(main_results)
       /\ \A i, j \in 1..Len(output) :
            i < j => LexBefore(output[i][1], output[j][1])

\* a mapping whose insertion order is not the sorted order and that holds a
\* key together with a proper prefix of it
C10_Witness ==
  /\ pc = "sort_done" /\ output # main_results /\ Len(output) = MaxDictLen
  /\ \E i, j \in 1..Len(output) :
       /\ Len(output[i][1]) < Len(output[j][1])
       /\ SubSeq(output[j][1], 1, Len(output[i][1])) = output[i][1]

\* C13: the output of a finished translation crawl is in ascending order of
\* Label: of two entries the one with the smaller Label comes first, after
\* deduplication too.
C13_OutputSortedByLabel ==
  (script = "tr" /\ pc = "done")
    => \A i, j \in 1..Len(output) :
         output[i].Label < output[j].Label => i < j

\* a finished run whose accumulator was not in Label order and lost a
\* duplicate, with entries of different Labels in the output
C13_Witness ==
  /\ script = "tr" /\ pc = "done" /\ Len(output) < Len(results)
  /\ \E i, j \in 1..Len(results) :
       i < j /\ results[i].Label > results[j].Label
  /\ \E i, j \in 1..Len(output) : output[i].Label # output[j].Label

\* C14: the translation crawl terminates on every finite tree: no branch of
\* the traversal recurses without end, also when a node flagged hasChildren
\* gets a hierarchy response whose own entry has no 'narrower' list.
C14_TraversalTerminates == script = "tr" => exc # "RecursionError"

\* C15: at every point of a run the Traversal Counter equals the number of
\* nodes visited so far (root entries, child descriptors and directly
\* returned leaf entries), in both crawls, with or without a cap.
C15_CounterEqualsVisits == counter = visits

\* C16: every request of a run but the first is immediately preceded by a
\* Rate Limiter delay: no two requests are issued without a sleep between
\* them.
C16_SleepBeforeEveryRequest == ~net.b2b

(***************************************************************************)
(* The Result Assembler of the translation crawl on arbitrary entry lists  *)
(***************************************************************************)
\* the Translations values get_translations can hand back: None, {}, and one
\* two-language dict in both insertion orders
TransPool ==
  {NoneValue, DictValue(<<>>),
   DictValue(<<<<1, 0>>, <<2, 0>>>>), DictValue(<<<<2, 0>>, <<1, 0>>>>)}

EntryPool ==
  [Label : 0..MaxLabel, Translations : TransPool, MIMOPage : 1..MaxPage]

\* an empty accumulator
AsmInit ==
  /\ script = "tr" /\ MAX_COUNT = -1
  /\ parent = [n \in Nodes |-> 0] /\ hasChildren = [n \in Nodes |-> FALSE]
  /\ pc = "asm_input" /\ exc = "none" /\ mi = 1 /\ stack = <<>>
  /\ counter = 0 /\ failed_urls = <<>> /\ results = <<>>
  /\ main_results = <<>>
  /\ output = <<>> /\ reported = FALSE
  /\ body = [n \in Nodes |-> "unknown"]
  /\ nonOk = {} /\ hierReq = {} /\ visits = 0
  /\ net = [last |-> "none", b2b |-> FALSE]
  /\ li_texts = <<>> /\ description = <<>>

\* results.append(entry)
AsmAppend ==
  /\ pc = "asm_input" /\ Len(results) < MaxListLen
  /\ \E e \in EntryPool : results' = Append(results, e)
  /\ UNCHANGED <<scraped, remote, pc, exc, mi, stack, counter, failed_urls,
                 main_results, output, reported, body, nonOk, hierReq,
                 visits, net>>

\* sorted_results = sorted(results, key=lambda x: x['Label']);
\* cleaned_results = remove_duplicates(sorted_results)
AsmAssemble ==
  /\ pc = "asm_input"
  /\ output' = remove_duplicates(SortedByLabel(results))
  /\ pc' = "asm_done"
  /\ UNCHANGED <<scraped, remote, exc, mi, stack, counter, failed_urls, results,
                 main_results, reported, body, nonOk, hierReq, visits, net>>

\* remove_duplicates(results) on the list as it stands
AsmDedup ==
  /\ pc = "asm_input"
  /\ output' = remove_duplicates(results)
  /\ pc' = "dedup_done"
  /\ UNCHANGED <<scraped, remote, exc, mi, stack, counter, failed_urls, results,
                 main_results, reported, body, nonOk, hierReq, visits, net>>

AsmNext == AsmAppend \/ AsmAssemble \/ AsmDedup

SpecAsm == AsmInit /\ [][AsmNext]_vars

\* C11: the Result Assembler is idempotent: sorting its output by Label and
\* removing duplicates again returns that output unchanged.
C11_AssemblerIdempotent ==
  pc = "asm_done" => remove_duplicates(SortedByLabel(output)) = output

\* the assembler reordered the list, dropped a duplicate, and its output
\* holds two different entries with the same Label
C11_Witness ==
  /\ pc = "asm_done" /\ Len(output) < Len(results)
  /\ \E i \in 1..Len(output) : output[i] # results[i]
  /\ \E i, j \in 1..Len(output) :
       i < j /\ output[i].Label = output[j].Label

\* positions of the input whose entry equals no earlier entry
FirstOccurrences ==
  {i \in 1..Len(results) :
     \A j \in 1..(i - 1) : ~EntryEq(results[j], results[i])}

FragmentPool ==
  {[i \in 1..l |-> c] : l \in 1..MaxFragLen, c \in 1..MaxChar}

\* max(li_texts, key=len): the first fragment of maximal length
get_description_from_uri_FirstLongest(texts) ==
  texts[CHOOSE i \in 1..Len(texts) :
          /\ \A j \in 1..Len(texts) : Len(texts[j]) <= Len(texts[i])
          /\ \A j \in 1..(i - 1) : Len(texts[j]) < Len(texts[i])]

\* sorted(li_texts, key=len)[-1]
get_description_from_uri(texts) ==
  LET keyed == [i \in 1..Len(texts) |-> <<Len(texts[i]), texts[i]>>]
      srt   == SortedKeyed(keyed)
  IN  srt[Len(srt)][2]

\* a details page fetched with status 200, no fragment read yet
DescInit ==
  /\ script = "hs" /\ MAX_COUNT = -1
  /\ parent = [n \in Nodes |-> 0] /\ hasChildren = [n \in Nodes |-> FALSE]
  /\ pc = "desc_input" /\ exc = "none" /\ mi = 1 /\ stack = <<>>
  /\ counter = 0 /\ failed_urls = <<>> /\ results = <<>>
  /\ main_results = <<>>
  /\ output = <<>> /\ reported = FALSE
  /\ body = [n \in Nodes |-> "unknown"]
  /\ nonOk = {} /\ hierReq = {} /\ visits = 0
  /\ net = [last |-> "none", b2b |-> FALSE]
  /\ li_texts = <<>> /\ description = <<>>

\* the xpath query yields one more text node, in document order
DescScrape ==
  /\ pc = "desc_input" /\ Len(li_texts) < MaxFrags
  /\ \E t \in FragmentPool : li_texts' = Append(li_texts, t)
  /\ UNCHANGED <<remote, pc, exc, mi, stack, counter, failed_urls, results,
                 main_results, output, reported, body, nonOk, hierReq,
                 visits, net, description>>

\* return sorted(li_texts, key=len)[-1]; IndexError on an empty list
DescReturn ==
  /\ pc = "desc_input"
  /\ IF li_texts = <<>>
     THEN exc' = "IndexError" /\ description' = description
     ELSE exc' = exc /\ description' = get_description_from_uri(li_texts)
  /\ pc' = "desc_done"
  /\ UNCHANGED <<remote, mi, stack, counter, failed_urls, results,
                 main_results, output, reported, body, nonOk, hierReq,
                 visits, net, li_texts>>

DescNext == DescScrape \/ DescReturn

SpecDesc == DescInit /\ [][DescNext]_vars

\* C17: for a non-empty list of fragments get_description_from_uri returns a
\* fragment of maximal length, and of several fragments of maximal length
\* the one that comes last in source order.
C17_LastLongestFragment ==
  (pc = "desc_done" /\ li_texts # <<>>)
    => \E i \in 1..Len(li_texts) :
         /\ description = li_texts[i]
         /\ \A j \in 1..Len(li_texts) : Len(li_texts[j]) <= Len(li_texts[i])
         /\ \A j \in (i + 1)..Len(li_texts) :
              Len(li_texts[j]) < Len(li_texts[i])

\* two different fragments share the maximal length and a shorter fragment
\* follows them
C17_Witness ==
  /\ pc = "desc_done" /\ Len(li_texts) = MaxFrags
  /\ Len(li_texts[1]) = Len(li_texts[2]) /\ li_texts[1] # li_texts[2]
  /\ Len(li_texts[3]) < Len(li_texts[2])
  /\ description = li_texts[2]

====
